---- MODULE Spec2Model ----
(***************************************************************************)
(* Model of the chatbot backend: the configuration (config/config.js),     *)
(* the provider adapters (providers/*.js), the chat and dictionary routes  *)
(* (routes/chat.js, routes/dictionary.js), the response verifier           *)
(* (utils/llm-verification.js), the validation script                      *)
(* (scripts/validate-llm-responses.js) and the batch runners of both.      *)
(*                                                                         *)
(* JavaScript objects are functions with a domain of key names: a key that *)
(* is not in the domain is `undefined`. Text that the code cuts, joins or  *)
(* searches is a sequence of symbols; the empty string is << >>.           *)
(* An operator that models code which can throw evaluates to a completion: *)
(* [thrown |-> FALSE, value |-> v] or [thrown |-> TRUE, error |-> e].      *)
(***************************************************************************)
EXTENDS Integers, Sequences, FiniteSets, TLC

VARIABLES
    config,        \* config.currentProvider, config.llmEnabled, and the keys the environment sets
    providers,     \* routes/chat.js: cache  provider name -> provider instance
    route,         \* the handler serving the request under observation
    pc,            \* where that handler stands: idle, db (awaiting pool.query), http (awaiting axios), done
    request,       \* the request's body (POST) or query (GET)
    provider,      \* the handler's local `provider`: << >> or <<instance>>
    rows,          \* dictionary handler: << >>, or <<result.rows>> once pool.query resolved
    outbound,      \* the HTTP requests the handler's provider call has issued
    reply,         \* the vendor's answer on the wire: << >> or <<reply>>
    result,        \* what generateResponse / validateConnection resolved to: << >> or <<value>>
    responses,     \* the responses the handler has sent: sequence of [status, body]
    meaning,       \* verifier: databaseEntry.english_meaning
    candidate,     \* verifier: llmResponse
    verdict,       \* verifier: << >> or <<the object verifyResponse returned>>
    verdictWords,  \* verifier, word-by-word version: << >> or <<the object it returned>>
    testCase,      \* validation script: the test case given to validateResponse
    llmResult,     \* validation script: what queryLLM resolved to
    validation,    \* validation script: << >> or <<completion of validateResponse>>
    runner,        \* batch run: runValidation, runVerificationTests or verifyAgainstProduction
    verbose,       \* batch run: options.verbose
    testCases,     \* batch run: the test cases (entries) of the run
    index,         \* batch run: the loop variable i, counted from 1
    results,       \* batch run: the `results` array
    log,           \* batch run: what the loop wrote to the console, per test case
    answers,       \* batch run: per test case taken up, << >> (none asked) or <<what queryLLM resolved to>>
    maxTests,      \* batch run: runValidation's maxTests: << >> for null, or <<number>>
    successCount,  \* batch run: the counter of accurate responses
    returned,      \* batch run: << >> while the loop runs, then <<completion of the runner>>
    timeline,      \* batch run: the LLM calls, their answers and the waits, in the order they happened
    report         \* validation script: << >>, or <<what generateReport returned>>

serverVars == <<config, providers, route, pc, request, provider, rows, outbound, reply,
                result, responses>>
verifierVars == <<meaning, candidate, verdict, verdictWords>>
validateVars == <<testCase, llmResult, validation>>
batchVars == <<runner, verbose, testCases, index, results, log, answers, maxTests,
               successCount, returned, timeline, report>>
scriptVars == <<verifierVars, validateVars, batchVars>>
vars == <<config, providers, route, pc, request, provider, rows, outbound, reply,
          result, responses, meaning, candidate, verdict, verdictWords,
          testCase, llmResult, validation,
          runner, verbose, testCases, index, results, log, answers, maxTests,
          successCount, returned, timeline, report>>

----------------------------------------------------------------------------
(* Bounds of the model *)

MaxConv == 1        \* longest `conversation` array a chat request carries
MaxRows == 1        \* most rows a dictionary query returns
MaxMeaningLen == 3  \* longest english_meaning given to the verifier
MaxCandLen == 3     \* longest LLM response given to the verifier
MaxWords == 3       \* most words of a meaning written word by word
MaxCandWords == 2   \* most words of a response written word by word
MaxRepeat == 43     \* most one-word phrases of a meaning that lists them

----------------------------------------------------------------------------
(* JavaScript values *)

Empty == [k \in {} |-> TRUE]
Has(obj, k) == k \in DOMAIN obj
\* {key: src[from]} when src has the key, {} otherwise (an undefined value is an absent key)
Opt(key, src, from) == IF Has(src, from) THEN key :> src[from] ELSE Empty
\* a || b for numbers and for text: undefined, 0 and "" are falsy
OrNum(obj, k, dflt) == IF Has(obj, k) /\ obj[k] # 0 THEN obj[k] ELSE dflt
OrText(obj, k, dflt) == IF Has(obj, k) /\ obj[k] # << >> THEN obj[k] ELSE dflt
OrName(obj, k, dflt) == IF Has(obj, k) /\ obj[k] # "" THEN obj[k] ELSE dflt

Ret(v) == [thrown |-> FALSE, value |-> v]
Throw(e) == [thrown |-> TRUE, error |-> e]

RECURSIVE SelectSeqBy(_, _)
\* Array.prototype.filter(msg => msg.role !== 'system')
SelectSeqBy(s, keepSystem) ==
    IF s = << >> THEN << >>
    ELSE LET rest == SelectSeqBy(Tail(s), keepSystem) IN
         IF (Head(s).role = "system") = keepSystem THEN <<Head(s)>> \o rest ELSE rest

----------------------------------------------------------------------------
(* config/config.js *)

Implemented == {"openai", "anthropic", "gemini"}
Configured == Implemented \cup {"ollama"}
\* names a client or the LLM_PROVIDER variable can give
ProviderNames == Configured \cup {"mistral"}

DefaultTemperature == 7      \* tenths: 0.7
DefaultMaxTokens == 1000
DefaultSystemPrompt == <<"You are a helpful AI assistant.">>

DefaultModel(name) ==
    CASE name = "openai" -> "gpt-4o-mini"
      [] name = "anthropic" -> "claude-3-sonnet-20240229"
      [] name = "ollama" -> "llama2"
      [] name = "gemini" -> "gemini-2.5-flash"

\* config.providers[name]; apiKey is process.env.<NAME>_API_KEY, which may be unset
ProviderConfig(cfg, name) ==
    [defaultModel |-> DefaultModel(name)]
        @@ (IF name \in cfg.apiKeys THEN [apiKey |-> "key"] ELSE Empty)

ConfigInit ==
    config \in [currentProvider : ProviderNames, llmEnabled : BOOLEAN,
                apiKeys : SUBSET Implemented]

----------------------------------------------------------------------------
(* providers/OpenAIProvider.js, AnthropicProvider.js, GeminiProvider.js *)

\* a constructor that forgets the credential check
NewProviderNoCheck(name, providerConfig) ==
    Ret([name |-> name, defaultModel |-> providerConfig.defaultModel])

\* new XProvider(providerConfig): throws when the credential is missing
NewProvider(name, providerConfig) ==
    IF ~Has(providerConfig, "apiKey")
    THEN Throw("API key is required")
    ELSE Ret([name |-> name, defaultModel |-> providerConfig.defaultModel])

\* GeminiProvider.convertToGeminiFormat
convertToGeminiFormat(messages) ==
    LET kept == SelectSeqBy(messages, FALSE) IN
    [i \in 1..Len(kept) |->
        [role |-> IF kept[i].role = "assistant" THEN "model" ELSE "user",
         parts |-> <<[text |-> kept[i].content]>>]]

\* messages.find(msg => msg.role === 'system')?.content || "You are a helpful AI assistant."
AnthropicSystem(messages) ==
    LET sys == SelectSeqBy(messages, TRUE) IN
    IF sys # << >> /\ sys[1].content # << >> THEN sys[1].content
    ELSE <<"You are a helpful AI assistant.">>

\* The request generateResponse hands to axios.post
OpenAIRequest(p, messages, options) ==
    [vendor |-> "openai", endpoint |-> "chat/completions",
     model |-> OrName(options, "model", p.defaultModel),
     messages |-> messages,
     temperature |-> OrNum(options, "temperature", 7),
     max_tokens |-> OrNum(options, "maxTokens", 1000)]

AnthropicRequest(p, messages, options) ==
    [vendor |-> "anthropic", endpoint |-> "messages",
     model |-> OrName(options, "model", p.defaultModel),
     max_tokens |-> OrNum(options, "maxTokens", 1000),
     temperature |-> OrNum(options, "temperature", 7),
     system |-> AnthropicSystem(messages),
     messages |-> SelectSeqBy(messages, FALSE)]

GeminiRequest(p, messages, options) ==
    [vendor |-> "gemini", endpoint |-> "generateContent",
     model |-> OrName(options, "model", p.defaultModel),
     contents |-> convertToGeminiFormat(messages),
     temperature |-> OrNum(options, "temperature", 7),
     max_tokens |-> OrNum(options, "maxTokens", 1000)]

GenerateRequest(p, messages, options) ==
    CASE p.name = "openai" -> OpenAIRequest(p, messages, options)
      [] p.name = "anthropic" -> AnthropicRequest(p, messages, options)
      [] p.name = "gemini" -> GeminiRequest(p, messages, options)

\* a client that sends the request again (a retry)
AxiosSendTwice(sent, req) == Append(Append(sent, req), req)

\* axios.post / axios.get: the request goes out once
AxiosSend(sent, req) == Append(sent, req)

\* What the vendor can do with a request.  kind "network": no response at all
\* (connection refused, reset); kind "response": a status and a body.
VendorText == <<"namaskar means hello", "\n", "see also: dev borem korum">>

OpenAIBodies ==
    { [choices |-> <<[message |-> [content |-> VendorText]]>>, model |-> "gpt-4o-mini",
       usage |-> [prompt_tokens |-> 9, completion_tokens |-> 12, total_tokens |-> 21]],
      [choices |-> <<[message |-> [content |-> VendorText]]>>, model |-> "gpt-4o-mini"],
      [choices |-> <<[message |-> Empty]>>, model |-> "gpt-4o-mini"],
      [choices |-> << >>],
      Empty }

AnthropicBodies ==
    { [content |-> <<[text |-> VendorText]>>, model |-> "claude-3-sonnet-20240229",
       usage |-> [input_tokens |-> 9, output_tokens |-> 12]],
      [content |-> <<[text |-> VendorText]>>, model |-> "claude-3-sonnet-20240229"],
      [content |-> << >>],
      Empty }

GeminiBodies ==
    { [candidates |-> <<[content |-> [parts |-> <<[text |-> VendorText]>>]]>>,
       usageMetadata |-> [promptTokenCount |-> 9, candidatesTokenCount |-> 12,
                          totalTokenCount |-> 21]],
      [candidates |-> <<[content |-> [parts |-> <<[text |-> VendorText]>>]]>>,
       usageMetadata |-> [promptTokenCount |-> 9]],
      [candidates |-> <<[content |-> [parts |-> <<[text |-> VendorText]>>]]>>],
      [candidates |-> <<[content |-> Empty]>>],
      Empty }

\* bodies of GET /models (OpenAI, Gemini)
ModelListBodies == { [data |-> <<"gpt-4o-mini">>], [models |-> <<"gemini-2.5-flash">>], Empty }

ErrorBodies == { [error |-> [message |-> "quota exceeded"]], Empty }

OkBodies(req) ==
    IF req.endpoint = "models" THEN ModelListBodies
    ELSE CASE req.vendor = "openai" -> OpenAIBodies
           [] req.vendor = "anthropic" -> AnthropicBodies
           [] req.vendor = "gemini" -> GeminiBodies

Replies(req) ==
    {[kind |-> "network"]}
        \cup {[kind |-> "response", status |-> 200, data |-> b] : b \in OkBodies(req)}
        \cup {[kind |-> "response", status |-> 429, data |-> b] : b \in ErrorBodies}

AllReplies ==
    {[kind |-> "network"]}
        \cup {[kind |-> "response", status |-> 200, data |-> b] :
                b \in OpenAIBodies \cup AnthropicBodies \cup GeminiBodies \cup ModelListBodies}
        \cup {[kind |-> "response", status |-> 429, data |-> b] : b \in ErrorBodies}

\* axios resolves a 2xx response and rejects everything else
Resolved(rep) == rep.kind = "response" /\ rep.status >= 200 /\ rep.status < 300

\* error.response?.data?.error?.message || error.message  for an error axios rejected with
AxiosErrorText(rep) ==
    IF rep.kind = "response" /\ Has(rep.data, "error") /\ Has(rep.data.error, "message")
    THEN rep.data.error.message
    ELSE IF rep.kind = "response" THEN "Request failed with status code"
    ELSE "Network Error"

TypeErrorText == "Cannot read properties of undefined"

Failure(name, text) == [success |-> FALSE, error |-> text, provider |-> name]

\* generateResponse with the extraction of the answer outside the try block
OpenAISettleUnguarded(rep) ==
    IF ~Resolved(rep) THEN Ret(Failure("openai", AxiosErrorText(rep)))
    ELSE IF ~(Has(rep.data, "choices") /\ Len(rep.data.choices) >= 1
              /\ Has(rep.data.choices[1], "message"))
    THEN Throw(TypeErrorText)
    ELSE Ret([success |-> TRUE, provider |-> "openai"]
                @@ Opt("message", rep.data.choices[1].message, "content")
                @@ Opt("usage", rep.data, "usage")
                @@ Opt("model", rep.data, "model"))

\* OpenAIProvider.generateResponse after the await: the try block's return, or the catch
OpenAISettle(rep) ==
    IF ~Resolved(rep) THEN Ret(Failure("openai", AxiosErrorText(rep)))
    ELSE IF ~(Has(rep.data, "choices") /\ Len(rep.data.choices) >= 1
              /\ Has(rep.data.choices[1], "message"))
    THEN Ret(Failure("openai", TypeErrorText))
    ELSE Ret([success |-> TRUE, provider |-> "openai"]
                @@ Opt("message", rep.data.choices[1].message, "content")
                @@ Opt("usage", rep.data, "usage")
                @@ Opt("model", rep.data, "model"))

AnthropicSettle(rep) ==
    IF ~Resolved(rep) THEN Ret(Failure("anthropic", AxiosErrorText(rep)))
    ELSE IF ~(Has(rep.data, "content") /\ Len(rep.data.content) >= 1)
    THEN Ret(Failure("anthropic", TypeErrorText))
    ELSE Ret([success |-> TRUE, provider |-> "anthropic"]
                @@ Opt("message", rep.data.content[1], "text")
                @@ Opt("usage", rep.data, "usage")
                @@ Opt("model", rep.data, "model"))

\* response.data.usageMetadata?.<field> || 0
GeminiCount(data, field) ==
    IF Has(data, "usageMetadata") THEN OrNum(data.usageMetadata, field, 0) ELSE 0

GeminiSettle(p, options, rep) ==
    IF ~Resolved(rep) THEN Ret(Failure("gemini", AxiosErrorText(rep)))
    ELSE IF ~(Has(rep.data, "candidates") /\ Len(rep.data.candidates) >= 1
              /\ Has(rep.data.candidates[1], "content")
              /\ Has(rep.data.candidates[1].content, "parts")
              /\ Len(rep.data.candidates[1].content.parts) >= 1)
    THEN Ret(Failure("gemini", TypeErrorText))
    ELSE Ret([success |-> TRUE, provider |-> "gemini",
              usage |-> [prompt_tokens |-> GeminiCount(rep.data, "promptTokenCount"),
                         completion_tokens |-> GeminiCount(rep.data, "candidatesTokenCount"),
                         total_tokens |-> GeminiCount(rep.data, "totalTokenCount")],
              model |-> OrName(options, "model", p.defaultModel)]
                @@ Opt("message", rep.data.candidates[1].content.parts[1], "text"))

\* The completion of `await provider.generateResponse(messages, options)`
GenerateSettle(p, options, rep) ==
    CASE p.name = "openai" -> OpenAISettle(rep)
      [] p.name = "anthropic" -> AnthropicSettle(rep)
      [] p.name = "gemini" -> GeminiSettle(p, options, rep)

\* validateConnection: request and completion
ValidateRequest(p) ==
    IF p.name = "anthropic"
    THEN [vendor |-> "anthropic", endpoint |-> "messages", model |-> p.defaultModel,
          max_tokens |-> 10, messages |-> <<[role |-> "user", content |-> <<"Hi">>]>>]
    ELSE [vendor |-> p.name, endpoint |-> "models"]

ValidateSettle(p, rep) ==
    IF ~Resolved(rep) THEN Ret([success |-> FALSE, error |-> AxiosErrorText(rep)])
    ELSE CASE p.name = "openai" ->
                IF Has(rep.data, "data")
                THEN Ret([success |-> TRUE, modelsCount |-> Len(rep.data.data)])
                ELSE Ret([success |-> FALSE, error |-> TypeErrorText])
           [] p.name = "gemini" ->
                Ret([success |-> TRUE,
                     modelsCount |-> IF Has(rep.data, "models") THEN Len(rep.data.models) ELSE 0])
           [] p.name = "anthropic" ->
                Ret([success |-> TRUE] @@ Opt("model", rep.data, "model"))

\* XProvider.getName()
getName(p) ==
    CASE p.name = "openai" -> "OpenAI"
      [] p.name = "anthropic" -> "Anthropic"
      [] p.name = "gemini" -> "Gemini"

----------------------------------------------------------------------------
(* routes/chat.js *)

\* initializeProvider(providerName)
initializeProvider(cfg, providerName) ==
    IF providerName \notin Configured THEN Throw("Provider not configured")
    ELSE IF providerName \in Implemented
    THEN NewProvider(providerName, ProviderConfig(cfg, providerName))
    ELSE Throw("Unsupported provider")

\* getCurrentProvider(): the completion, and the cache it leaves behind
getCurrentProvider(cfg, cache) ==
    LET name == cfg.currentProvider IN
    IF name \in DOMAIN cache
    THEN [thrown |-> FALSE, value |-> cache[name], providers |-> cache]
    ELSE LET made == initializeProvider(cfg, name) IN
         IF made.thrown
         THEN [thrown |-> TRUE, error |-> made.error, providers |-> cache]
         ELSE [thrown |-> FALSE, value |-> made.value,
               providers |-> (name :> made.value) @@ cache]

\* Bodies of POST /api/chat
ConvMessages ==
    { [role |-> "assistant", content |-> <<"ghar means house">>],
      [role |-> "system", content |-> <<"Answer in one line.">>] }
Conversations == UNION {[1..n -> ConvMessages] : n \in 0..MaxConv}
\* options that shape the messages, and options that shape the vendor parameters
PromptOptions == {Empty, [systemPrompt |-> <<"You are a Konkani language expert.">>]}
ParamOptions ==
    { a @@ b @@ c :
        a \in {Empty, [model |-> "gpt-4o"]},
        b \in {Empty, [temperature |-> 0], [temperature |-> 3]},
        c \in {Empty, [maxTokens |-> 150]} }
WithOptions(body, bag) == IF bag = Empty THEN body ELSE body @@ [options |-> bag]
WithConversation(body, conv) == IF conv = << >> THEN body ELSE body @@ [conversation |-> conv]
\* every conversation with every prompt option, and every parameter option
ChatBodies ==
    { WithOptions(WithConversation(m, conv), bag) :
        m \in {Empty, [message |-> << >>], [message |-> <<"what is ghar?">>]},
        conv \in Conversations, bag \in PromptOptions }
    \cup
    { WithOptions(m, bag) :
        m \in {Empty, [message |-> << >>], [message |-> <<"what is ghar?">>]},
        bag \in ParamOptions }

\* const { message, conversation = [], options = {} } = req.body
BodyConversation(body) == IF Has(body, "conversation") THEN body.conversation ELSE << >>
BodyOptions(body) == IF Has(body, "options") THEN body.options ELSE Empty

\* the messages array the chat handler builds
ChatMessages(body) ==
    <<[role |-> "system",
       content |-> OrText(BodyOptions(body), "systemPrompt", DefaultSystemPrompt)]>>
        \o BodyConversation(body)
        \o <<[role |-> "user", content |-> body.message]>>

\* the options object the chat handler passes to generateResponse
ChatOptions(body) ==
    Opt("model", BodyOptions(body), "model")
        @@ [temperature |-> OrNum(BodyOptions(body), "temperature", DefaultTemperature),
            maxTokens |-> OrNum(BodyOptions(body), "maxTokens", DefaultMaxTokens)]

Response(status, body) == [status |-> status, body |-> body]

\* router.post('/') up to `await provider.generateResponse(...)`
ChatStart(body) ==
    /\ pc = "idle"
    /\ route' = "chat"
    /\ request' = body
    /\ rows' = << >>
    /\ reply' = << >>
    /\ result' = << >>
    /\ IF ~(Has(body, "message") /\ body.message # << >>)
       THEN /\ responses' = <<Response(400, [error |-> "Message is required"])>>
            /\ pc' = "done"
            /\ provider' = << >>
            /\ outbound' = << >>
            /\ UNCHANGED providers
       ELSE LET got == getCurrentProvider(config, providers) IN
            /\ providers' = got.providers
            /\ IF got.thrown
               THEN /\ responses' = <<Response(500, [error |-> "Internal server error"])>>
                    /\ pc' = "done"
                    /\ provider' = << >>
                    /\ outbound' = << >>
               ELSE /\ provider' = <<got.value>>
                    /\ outbound' = AxiosSend(<< >>, GenerateRequest(got.value,
                                        ChatMessages(body), ChatOptions(body)))
                    /\ pc' = "http"
                    /\ responses' = << >>
    /\ UNCHANGED <<config, scriptVars>>

\* the handler answering an adapter failure without the adapter's error text
ChatRespondNoDetails(done) ==
    IF done.thrown THEN Response(500, [error |-> "Internal server error"])
    ELSE IF done.value.success
    THEN Response(200, [provider |-> done.value.provider]
                          @@ Opt("message", done.value, "message")
                          @@ Opt("model", done.value, "model")
                          @@ Opt("usage", done.value, "usage"))
    ELSE Response(500, [error |-> "Failed to generate response"]
                          @@ Opt("provider", done.value, "provider"))

\* the handler reporting config.currentProvider as it is when the response is sent
ChatRespondCurrentProvider(done) ==
    IF done.thrown THEN Response(500, [error |-> "Internal server error"])
    ELSE IF done.value.success
    THEN Response(200, [provider |-> config.currentProvider]
                          @@ Opt("message", done.value, "message")
                          @@ Opt("model", done.value, "model")
                          @@ Opt("usage", done.value, "usage"))
    ELSE Response(500, [error |-> "Failed to generate response",
                        provider |-> config.currentProvider]
                          @@ Opt("details", done.value, "error"))

\* router.post('/') after the await: what the handler sends for a completion
ChatRespond(done) ==
    IF done.thrown THEN Response(500, [error |-> "Internal server error"])
    ELSE IF done.value.success
    THEN Response(200, [provider |-> done.value.provider]
                          @@ Opt("message", done.value, "message")
                          @@ Opt("model", done.value, "model")
                          @@ Opt("usage", done.value, "usage"))
    ELSE Response(500, [error |-> "Failed to generate response"]
                          @@ Opt("details", done.value, "error")
                          @@ Opt("provider", done.value, "provider"))

\* router.post('/provider')
SwitchBodies == {Empty, [provider |-> ""]} \cup {[provider |-> n] : n \in ProviderNames}

\* the handler's response and the provider it leaves selected
SwitchRespond(cfg, body) ==
    IF ~(Has(body, "provider") /\ body.provider # "")
    THEN [config |-> cfg, response |-> Response(400, [error |-> "Provider name is required"])]
    ELSE IF body.provider \notin Configured
    THEN [config |-> cfg, response |-> Response(400, [error |-> "Invalid provider"])]
    ELSE [config |-> [cfg EXCEPT !.currentProvider = body.provider],
          response |-> Response(200, [message |-> "Switched",
                                      currentProvider |-> body.provider])]

\* A switch request runs to completion whenever no handler is running: as the
\* observed request when none is being served, or as another client's request
\* while the observed handler is suspended at an await.
SwitchProvider(body) ==
    /\ pc = "idle" \/ pc = "db" \/ (pc = "http" /\ reply = << >>)
    /\ config' = SwitchRespond(config, body).config
    /\ IF pc = "idle"
       THEN /\ route' = "provider"
            /\ request' = body
            /\ responses' = <<SwitchRespond(config, body).response>>
            /\ pc' = "done"
       ELSE UNCHANGED <<route, request, responses, pc>>
    /\ UNCHANGED <<providers, provider, rows, outbound, reply, result, scriptVars>>

\* router.get('/health') up to `await provider.validateConnection()`
HealthStart ==
    /\ pc = "idle"
    /\ route' = "health"
    /\ request' = Empty
    /\ rows' = << >>
    /\ reply' = << >>
    /\ result' = << >>
    /\ LET got == getCurrentProvider(config, providers) IN
       /\ providers' = got.providers
       /\ IF got.thrown
          THEN /\ responses' = <<Response(500, [provider |-> config.currentProvider,
                                                healthy |-> FALSE, error |-> got.error])>>
               /\ pc' = "done"
               /\ provider' = << >>
               /\ outbound' = << >>
          ELSE /\ provider' = <<got.value>>
               /\ outbound' = AxiosSend(<< >>, ValidateRequest(got.value))
               /\ pc' = "http"
               /\ responses' = << >>
    /\ UNCHANGED <<config, scriptVars>>

\* router.get('/health') after the await
HealthRespond(p, cfg, done) ==
    IF done.thrown
    THEN Response(500, [provider |-> cfg.currentProvider, healthy |-> FALSE,
                        error |-> done.error])
    ELSE Response(200, [provider |-> getName(p), healthy |-> done.value.success,
                        details |-> done.value])

----------------------------------------------------------------------------
(* routes/dictionary.js *)

\* getDictionaryProvider(): << >> for null, <<instance>> otherwise
getDictionaryProvider(cfg) ==
    IF ~cfg.llmEnabled THEN << >>
    ELSE IF cfg.currentProvider \notin Configured
            \/ ~Has(ProviderConfig(cfg, cfg.currentProvider), "apiKey")
    THEN << >>
    ELSE IF cfg.currentProvider \in Implemented
    THEN LET made == NewProvider(cfg.currentProvider,
                                 ProviderConfig(cfg, cfg.currentProvider)) IN
         IF made.thrown THEN << >> ELSE <<made.value>>
    ELSE << >>

\* Queries of GET /api/dictionary (limit and offset only reach the SQL text)
DictQueries ==
    { q @@ u :
        q \in {Empty, [query |-> << >>], [query |-> <<"ghar">>]},
        u \in {Empty, [use_llm |-> "true"], [use_llm |-> "false"]} }

\* const { query, ..., use_llm = 'false' } = req.query
QueryUseLlm(query) == IF Has(query, "use_llm") THEN query.use_llm ELSE "false"
QueryGiven(query) == Has(query, "query") /\ query.query # << >>

\* What pool.query can resolve to
Entries ==
    { [word_konkani_english_alphabet |-> <<"ghar">>, english_meaning |-> <<"house">>],
      [word_konkani_english_alphabet |-> <<"namaskar">>,
       english_meaning |-> <<"hello, greeting">>] }
RowLists == UNION {[1..n -> Entries] : n \in 0..MaxRows}
DbOutcomes == {[ok |-> FALSE]} \cup {[ok |-> TRUE, rows |-> r] : r \in RowLists}

RECURSIVE EntriesText(_)
\* entries.map(e => `${e.word_konkani_english_alphabet}: ${e.english_meaning}`).join('\n')
EntriesText(entries) ==
    IF entries = << >> THEN << >>
    ELSE Head(entries).word_konkani_english_alphabet \o <<": ">>
            \o Head(entries).english_meaning
            \o (IF Tail(entries) = << >> THEN << >> ELSE <<"\n">> \o EntriesText(Tail(entries)))

\* the messages enhanceSearchWithLLM builds
DictMessages(query, entries) ==
    <<[role |-> "system", content |-> <<"You are a Konkani language expert ...">>],
      [role |-> "user",
       content |-> <<"User searched for: ">> \o query \o <<"Database results:", "\n">>
                    \o EntriesText(entries) \o <<"Provide a brief summary ...">>]>>

DictOptions == [temperature |-> 3, maxTokens |-> 300]

\* response = { entries: result.rows, count: result.rows.length, llm_used: false }
DictBase(entries) == [entries |-> entries, count |-> Len(entries), llm_used |-> FALSE]

\* the condition without the use_llm test
ShouldEnhanceUnasked(cfg, query) == cfg.llmEnabled /\ QueryGiven(query)

\* if (config.llmEnabled && use_llm === 'true' && query)
ShouldEnhance(cfg, query) ==
    cfg.llmEnabled /\ QueryUseLlm(query) = "true" /\ QueryGiven(query)

\* router.get('/') up to `await pool.query(dbQuery, queryParams)`
DictStart(query) ==
    /\ pc = "idle"
    /\ route' = "dictionary"
    /\ request' = query
    /\ pc' = "db"
    /\ rows' = << >>
    /\ provider' = << >>
    /\ outbound' = << >>
    /\ reply' = << >>
    /\ result' = << >>
    /\ responses' = << >>
    /\ UNCHANGED <<config, providers, scriptVars>>

\* router.get('/') from the pool.query completion to the next await or the response
DbAnswers(outcome) ==
    /\ pc = "db"
    /\ IF ~outcome.ok
       THEN /\ responses' = <<Response(500, [error |-> "Failed to search dictionary"])>>
            /\ pc' = "done"
            /\ UNCHANGED <<rows, provider, outbound>>
       ELSE /\ rows' = <<outcome.rows>>
            /\ IF ShouldEnhance(config, request)
               THEN LET p == getDictionaryProvider(config) IN
                    IF p # << >>
                    THEN /\ provider' = p
                         /\ outbound' = AxiosSend(<< >>, GenerateRequest(p[1],
                                            DictMessages(request.query, outcome.rows),
                                            DictOptions))
                         /\ pc' = "http"
                         /\ UNCHANGED responses
                    ELSE /\ responses' = <<Response(200, DictBase(outcome.rows))>>
                         /\ pc' = "done"
                         /\ UNCHANGED <<provider, outbound>>
               ELSE /\ responses' = <<Response(200, DictBase(outcome.rows))>>
                    /\ pc' = "done"
                    /\ UNCHANGED <<provider, outbound>>
    /\ UNCHANGED <<config, providers, route, request, reply, result, scriptVars>>

RECURSIVE FirstLine(_)
\* text.split('\n')[0]
FirstLine(text) ==
    IF text = << >> \/ Head(text) = "\n" THEN << >>
    ELSE <<Head(text)>> \o FirstLine(Tail(text))

\* enhanceSearchWithLLM after the await
enhanceSearchWithLLM(done) ==
    IF done.thrown THEN Throw(done.error)
    ELSE IF done.value.success
    THEN IF Has(done.value, "message")
         THEN Ret([summary |-> FirstLine(done.value.message),
                   suggestions |-> done.value.message])
         ELSE Throw(TypeErrorText)
    ELSE Throw("LLM response failed")

\* the handler without the inner try/catch: the failure reaches the outer catch
DictRespondNoCatch(entries, done) ==
    LET llmResponse == enhanceSearchWithLLM(done) IN
    IF llmResponse.thrown THEN Response(500, [error |-> "Failed to search dictionary"])
    ELSE Response(200, [entries |-> entries, count |-> Len(entries), llm_used |-> TRUE,
                        llm_summary |-> llmResponse.value.summary,
                        llm_suggestions |-> llmResponse.value.suggestions])

\* router.get('/') after `await enhanceSearchWithLLM(...)`: try, catch, res.json(response)
DictRespond(entries, done) ==
    LET llmResponse == enhanceSearchWithLLM(done) IN
    IF llmResponse.thrown THEN Response(200, DictBase(entries))
    ELSE Response(200, [entries |-> entries, count |-> Len(entries), llm_used |-> TRUE,
                        llm_summary |-> llmResponse.value.summary,
                        llm_suggestions |-> llmResponse.value.suggestions])

----------------------------------------------------------------------------
(* The vendor and the continuation of the awaiting handler *)

\* the vendor answers the request the handler awaits
VendorAnswers(rep) ==
    /\ pc = "http"
    /\ reply = << >>
    /\ rep \in Replies(outbound[Len(outbound)])
    /\ reply' = <<rep>>
    /\ UNCHANGED <<config, providers, route, pc, request, provider, rows, outbound, result,
                   responses, scriptVars>>

\* the completion the awaited provider call produces for the reply
Settle(rt, p, req, rep) ==
    CASE rt = "chat" -> GenerateSettle(p, ChatOptions(req), rep)
      [] rt = "dictionary" -> GenerateSettle(p, DictOptions, rep)
      [] rt = "health" -> ValidateSettle(p, rep)

\* the event loop resumes the handler with the reply
Resume ==
    /\ pc = "http"
    /\ reply # << >>
    /\ LET done == Settle(route, provider[1], request, reply[1]) IN
       /\ result' = <<done>>
       /\ responses' = Append(responses,
            CASE route = "chat" -> ChatRespond(done)
              [] route = "dictionary" -> DictRespond(rows[1], done)
              [] route = "health" -> HealthRespond(provider[1], config, done))
    /\ pc' = "done"
    /\ UNCHANGED <<config, providers, route, request, provider, rows, outbound, reply,
                   scriptVars>>

\* the handler has sent its response and returned; the next request is observed
Finish ==
    /\ pc = "done"
    /\ pc' = "idle"
    /\ route' = "none"
    /\ request' = Empty
    /\ provider' = << >>
    /\ rows' = << >>
    /\ outbound' = << >>
    /\ reply' = << >>
    /\ result' = << >>
    /\ responses' = << >>
    /\ UNCHANGED <<config, providers, scriptVars>>

----------------------------------------------------------------------------
(* The server *)

\* the server before any request
ServerIdle ==
    /\ config = [currentProvider |-> "openai", llmEnabled |-> TRUE, apiKeys |-> {}]
    /\ providers = Empty
    /\ route = "none"
    /\ pc = "idle"
    /\ request = Empty
    /\ provider = << >>
    /\ rows = << >>
    /\ outbound = << >>
    /\ reply = << >>
    /\ result = << >>
    /\ responses = << >>

\* no verification, validation or batch run is under way
VerifierIdle ==
    /\ meaning = << >>
    /\ candidate = << >>
    /\ verdict = << >>
    /\ verdictWords = << >>
ValidateIdle ==
    /\ testCase = Empty
    /\ llmResult = Empty
    /\ validation = << >>
BatchIdle ==
    /\ runner = "none"
    /\ verbose = TRUE
    /\ testCases = << >>
    /\ index = 1
    /\ results = << >>
    /\ log = << >>
    /\ answers = << >>
    /\ maxTests = << >>
    /\ successCount = 0
    /\ returned = << >>
    /\ timeline = << >>
    /\ report = << >>

ServerInit ==
    /\ ConfigInit
    /\ providers = Empty
    /\ route = "none"
    /\ pc = "idle"
    /\ request = Empty
    /\ provider = << >>
    /\ rows = << >>
    /\ outbound = << >>
    /\ reply = << >>
    /\ result = << >>
    /\ responses = << >>

Init ==
    /\ ServerInit
    /\ VerifierIdle
    /\ ValidateIdle
    /\ BatchIdle

Next ==
    \/ \E body \in ChatBodies : ChatStart(body)
    \/ \E body \in SwitchBodies : SwitchProvider(body)
    \/ HealthStart
    \/ \E query \in DictQueries : DictStart(query)
    \/ \E outcome \in DbOutcomes : DbAnswers(outcome)
    \/ \E rep \in AllReplies : VendorAnswers(rep)
    \/ Resume
    \/ Finish

Spec == Init /\ [][Next]_vars

\* Node's event loop runs a continuation whose promise has settled
FairSpec == Spec /\ WF_vars(Resume)

----------------------------------------------------------------------------
(* utils/llm-verification.js: verifyResponse.  Strings are sequences of characters. *)

Chars == {"a", "B", " ", ","}
Strings(n) == UNION {[1..k -> Chars] : k \in 0..n}

\* String.prototype.toLowerCase, character by character
LowerChar(c) == IF c = "B" THEN "b" ELSE c
\* the characters that have a letter case; "S" stands for the Greek capital sigma,
\* "s" for the small sigma and "f" for the small final sigma
IsCased(c) == c \in {"a", "b", "B", "S", "s", "f"}
\* The one mapping of toLowerCase that depends on the neighbours: a capital sigma
\* after a cased letter and not before one becomes the final sigma.
toLowerCase(str) ==
    [i \in 1..Len(str) |->
        IF str[i] # "S" THEN LowerChar(str[i])
        ELSE IF /\ i > 1 /\ IsCased(str[i - 1])
                /\ ~(i < Len(str) /\ IsCased(str[i + 1]))
        THEN "f" ELSE "s"]

IsSpace(c) == c = " "

\* a search that finds part only at the start of str
includesAtStart(str, part) ==
    /\ Len(part) <= Len(str)
    /\ \A j \in 1..Len(part) : str[j] = part[j]

\* String.prototype.includes
includes(str, part) ==
    \E i \in 0..(Len(str) - Len(part)) :
        \A j \in 1..Len(part) : str[i + j] = part[j]

RECURSIVE trimStart(_)
trimStart(str) == IF str # << >> /\ IsSpace(Head(str)) THEN trimStart(Tail(str)) ELSE str
RECURSIVE trimEnd(_)
trimEnd(str) ==
    IF str # << >> /\ IsSpace(str[Len(str)]) THEN trimEnd(SubSeq(str, 1, Len(str) - 1))
    ELSE str
\* String.prototype.trim
trim(str) == trimEnd(trimStart(str))

\* the position of the first comma of str, 0 when it has none
indexOfComma(str) ==
    IF \E i \in 1..Len(str) : str[i] = ","
    THEN CHOOSE i \in 1..Len(str) : str[i] = "," /\ \A j \in 1..(i - 1) : str[j] # ","
    ELSE 0

RECURSIVE splitComma(_)
\* str.split(','): the piece before the first comma, then the pieces of the rest
splitComma(str) ==
    LET at == indexOfComma(str) IN
    IF at = 0 THEN <<str>>
    ELSE <<SubSeq(str, 1, at - 1)>> \o splitComma(SubSeq(str, at + 1, Len(str)))

\* the position of the first white space of str, 0 when it has none
indexOfSpace(str) ==
    IF \E i \in 1..Len(str) : IsSpace(str[i])
    THEN CHOOSE i \in 1..Len(str) : IsSpace(str[i]) /\ \A j \in 1..(i - 1) : ~IsSpace(str[j])
    ELSE 0
\* the last position of the run of white space that starts at position `from`
endOfSpaces(str, from) ==
    CHOOSE e \in from..Len(str) :
        /\ \A j \in from..e : IsSpace(str[j])
        /\ e < Len(str) => ~IsSpace(str[e + 1])

RECURSIVE splitSpaces(_)
\* str.split(/\s+/): a maximal run of white space is one separator
splitSpaces(str) ==
    LET at == indexOfSpace(str) IN
    IF at = 0 THEN <<str>>
    ELSE <<SubSeq(str, 1, at - 1)>>
            \o splitSpaces(SubSeq(str, endOfSpaces(str, at) + 1, Len(str)))

RECURSIVE filterLonger(_, _)
\* words.filter(w => w.length > n)
filterLonger(words, n) ==
    IF words = << >> THEN << >>
    ELSE (IF Len(Head(words)) > n THEN <<Head(words)>> ELSE << >>)
            \o filterLonger(Tail(words), n)

RECURSIVE filterIncluded(_, _)
\* the words of `words` that `text` includes, in order
filterIncluded(words, text) ==
    IF words = << >> THEN << >>
    ELSE (IF includes(text, Head(words)) THEN <<Head(words)>> ELSE << >>)
            \o filterIncluded(Tail(words), text)

RECURSIVE unique(_, _)
\* [...new Set(items)]: first occurrences, in order
unique(items, seen) ==
    IF items = << >> THEN << >>
    ELSE IF Head(items) \in seen THEN unique(Tail(items), seen)
    ELSE <<Head(items)>> \o unique(Tail(items), seen \cup {Head(items)})

SignificantLength == 2     \* w.length > 2
AccurateThreshold == 40    \* matchPercentage >= 40

\* a loop body that counts a phrase found in the response as one matched word
scorePartCountsPhrase(part, llmMeaningLower) ==
    LET words == filterLonger(splitSpaces(part), SignificantLength) IN
    IF includes(llmMeaningLower, part)
    THEN [totalWords |-> 1, matchedWords |-> <<part>>]
    ELSE [totalWords |-> Len(words),
          matchedWords |-> filterIncluded(words, llmMeaningLower)]

\* a loop body that takes only words longer than 3 characters, as the earlier version did
scorePartLonger(part, llmMeaningLower) ==
    LET words == filterLonger(splitSpaces(part), SignificantLength + 1) IN
    IF includes(llmMeaningLower, part)
    THEN [totalWords |-> Len(words), matchedWords |-> words]
    ELSE [totalWords |-> Len(words),
          matchedWords |-> filterIncluded(words, llmMeaningLower)]

\* a loop body that pushes every word of a phrase it finds, the short ones too
scorePartUnfiltered(part, llmMeaningLower) ==
    LET words == filterLonger(splitSpaces(part), SignificantLength) IN
    IF includes(llmMeaningLower, part)
    THEN [totalWords |-> Len(words), matchedWords |-> filterLonger(splitSpaces(part), 0)]
    ELSE [totalWords |-> Len(words),
          matchedWords |-> filterIncluded(words, llmMeaningLower)]

\* the body of meaningParts.forEach for one part: what it adds to totalWords and matchedWords
\* a short-circuit taken as soon as the response has the first word of the phrase
scorePartLoosePhrase(part, llmMeaningLower) ==
    LET words == filterLonger(splitSpaces(part), SignificantLength) IN
    IF includes(llmMeaningLower, part)
            \/ (words # << >> /\ includes(llmMeaningLower, words[1]))
    THEN [totalWords |-> Len(words), matchedWords |-> words]
    ELSE [totalWords |-> Len(words),
          matchedWords |-> filterIncluded(words, llmMeaningLower)]

scorePart(part, llmMeaningLower) ==
    LET words == filterLonger(splitSpaces(part), SignificantLength) IN
    IF includes(llmMeaningLower, part)
    THEN [totalWords |-> Len(words), matchedWords |-> words]
    ELSE [totalWords |-> Len(words),
          matchedWords |-> filterIncluded(words, llmMeaningLower)]

RECURSIVE scoreParts(_, _)
\* meaningParts.forEach(...): totalWords and matchedWords after the loop
scoreParts(parts, llmMeaningLower) ==
    IF parts = << >> THEN [totalWords |-> 0, matchedWords |-> << >>]
    ELSE LET first == scorePart(Head(parts), llmMeaningLower)
             rest == scoreParts(Tail(parts), llmMeaningLower)
         IN [totalWords |-> first.totalWords + rest.totalWords,
             matchedWords |-> first.matchedWords \o rest.matchedWords]

\* actualMeaning.split(',').map(s => s.trim())
meaningParts(actualMeaning) ==
    LET raw == splitComma(actualMeaning) IN
    [i \in 1..Len(raw) |-> trim(raw[i])]

\* Math.floor in the place of Math.round
RoundPercentFloor(matched, total) == (100 * matched) \div total

\* Math.round(matched / total * 100) for 0 <= matched, 0 < total: halves round up
RoundPercent(matched, total) == (200 * matched + total) \div (2 * total)

\* a verifyResponse that searches the response as written, not lower-cased
verifyResponseCaseSensitive(databaseEntry, llmResponse) ==
    LET actualMeaning == toLowerCase(databaseEntry.english_meaning)
        score == scoreParts(meaningParts(actualMeaning), llmResponse)
        matched == Len(score.matchedWords)
    IN [word |-> databaseEntry.word_konkani_english_alphabet,
        actual_meaning |-> databaseEntry.english_meaning,
        llm_response |-> llmResponse,
        match_percentage |->
            IF score.totalWords > 0 THEN RoundPercent(matched, score.totalWords) ELSE 0,
        matched_words |-> unique(score.matchedWords, {}),
        is_accurate |->
            score.totalWords > 0 /\ 100 * matched >= AccurateThreshold * score.totalWords]

\* a verifyResponse that asks for more than the threshold: matchPercentage > 40
verifyResponseAbove(databaseEntry, llmResponse) ==
    LET actualMeaning == toLowerCase(databaseEntry.english_meaning)
        llmMeaningLower == toLowerCase(llmResponse)
        score == scoreParts(meaningParts(actualMeaning), llmMeaningLower)
        matched == Len(score.matchedWords)
    IN [word |-> databaseEntry.word_konkani_english_alphabet,
        actual_meaning |-> databaseEntry.english_meaning,
        llm_response |-> llmResponse,
        match_percentage |->
            IF score.totalWords > 0 THEN RoundPercent(matched, score.totalWords) ELSE 0,
        matched_words |-> unique(score.matchedWords, {}),
        is_accurate |->
            score.totalWords > 0 /\ 100 * matched > AccurateThreshold * score.totalWords]

\* verifyResponse(databaseEntry, llmResponse), the 40% phrase-aware version
verifyResponse(databaseEntry, llmResponse) ==
    LET actualMeaning == toLowerCase(databaseEntry.english_meaning)
        llmMeaningLower == toLowerCase(llmResponse)
        score == scoreParts(meaningParts(actualMeaning), llmMeaningLower)
        matched == Len(score.matchedWords)
    IN [word |-> databaseEntry.word_konkani_english_alphabet,
        actual_meaning |-> databaseEntry.english_meaning,
        llm_response |-> llmResponse,
        match_percentage |->
            IF score.totalWords > 0 THEN RoundPercent(matched, score.totalWords) ELSE 0,
        matched_words |-> unique(score.matchedWords, {}),
        is_accurate |->
            score.totalWords > 0 /\ 100 * matched >= AccurateThreshold * score.totalWords]

SignificantLengthWords == 3   \* word.length > 3
AccurateThresholdWords == 50  \* matchPercentage >= 50

\* verifyResponse(databaseEntry, llmResponse), the earlier word-by-word version
verifyResponseWords(databaseEntry, llmResponse) ==
    LET actualMeaning == toLowerCase(databaseEntry.english_meaning)
        llmMeaningLower == toLowerCase(llmResponse)
        meaningWords ==
            filterLonger(splitSpaces(actualMeaning), SignificantLengthWords)
        matchedWords == filterIncluded(meaningWords, llmMeaningLower)
    IN [word |-> databaseEntry.word_konkani_english_alphabet,
        actual_meaning |-> databaseEntry.english_meaning,
        llm_response |-> llmResponse,
        match_percentage |->
            IF Len(meaningWords) > 0
            THEN RoundPercent(Len(matchedWords), Len(meaningWords)) ELSE 0,
        matched_words |-> matchedWords,
        is_accurate |->
            /\ Len(meaningWords) > 0
            /\ 100 * Len(matchedWords) >= AccurateThresholdWords * Len(meaningWords)]

\* words and separators of the texts that are written word by word
Words == {<<"a", "a", "a">>, <<"a", "B", "a">>}
Joiners == {<<" ">>, <<",", " ">>}

RECURSIVE JoinWords(_, _)
\* the words ws joined by the separators seps
JoinWords(ws, seps) ==
    IF Len(ws) = 1 THEN ws[1]
    ELSE ws[1] \o seps[1] \o JoinWords(Tail(ws), Tail(seps))

\* the texts of 1..n words
WordTexts(n) ==
    UNION {{JoinWords(ws, seps) : ws \in [1..k -> Words], seps \in [1..(k - 1) -> Joiners]}
            : k \in 1..n}

RECURSIVE RepeatPhrase(_, _)
\* 'word,word,...,word', n times
RepeatPhrase(word, n) ==
    IF n = 0 THEN << >>
    ELSE IF n = 1 THEN word
    ELSE word \o <<",">> \o RepeatPhrase(word, n - 1)

\* a meaning that lists k times one word and then j times another
ListedMeaning(k, j) ==
    IF k = 0 THEN RepeatPhrase(<<"a", "B", "a">>, j)
    ELSE IF j = 0 THEN RepeatPhrase(<<"a", "a", "a">>, k)
    ELSE RepeatPhrase(<<"a", "a", "a">>, k) \o <<",">> \o RepeatPhrase(<<"a", "B", "a">>, j)

ListedMeanings(n) == {ListedMeaning(k, n - k) : k \in 0..n}

\* the texts that have a capital sigma
SigmaTexts(n) == {text \in UNION {[1..k -> {"a", "S"}] : k \in 1..n} :
                    \E i \in 1..Len(text) : text[i] = "S"}

\* the meanings and the responses the verifier is given
Meanings ==
    Strings(MaxMeaningLen) \cup WordTexts(MaxWords) \cup SigmaTexts(MaxMeaningLen)
        \cup UNION {ListedMeanings(n) : n \in 4..MaxRepeat}
Candidates(text) ==
    IF text \in Strings(MaxMeaningLen) \cup WordTexts(MaxWords) \cup SigmaTexts(MaxMeaningLen)
    THEN Strings(MaxCandLen) \cup WordTexts(MaxCandWords) \cup SigmaTexts(MaxCandLen)
            \cup {text, toLowerCase(text)}
    ELSE WordTexts(1) \cup {text, toLowerCase(text)}

\* the entry under test
Entry(text) == [word_konkani_english_alphabet |-> <<"g", "h", "a", "r">>,
                english_meaning |-> text]

Verify ==
    /\ verdict = << >>
    /\ verdict' = <<verifyResponse(Entry(meaning), candidate)>>
    /\ UNCHANGED <<meaning, candidate, verdictWords, serverVars, validateVars, batchVars>>

VerifyWords ==
    /\ verdictWords = << >>
    /\ verdictWords' = <<verifyResponseWords(Entry(meaning), candidate)>>
    /\ UNCHANGED <<meaning, candidate, verdict, serverVars, validateVars, batchVars>>

VerifyInit ==
    /\ meaning \in Meanings
    /\ candidate \in Candidates(meaning)
    /\ verdict = << >>
    /\ verdictWords = << >>
    /\ ServerIdle
    /\ ValidateIdle
    /\ BatchIdle

VerifyNext == Verify \/ VerifyWords

VerifySpec == VerifyInit /\ [][VerifyNext]_vars

----------------------------------------------------------------------------
(* scripts/validate-llm-responses.js: validateResponse *)

MaxExpectedLen == 3   \* longest expected english_meaning of a test case

\* strings of at most n characters over chars
StringsOver(chars, n) == UNION {[1..k -> chars] : k \in 0..n}

Devanagari == "gha"   \* one character of the native script
TestIds == {"test-1", "test-2"}
ExpectedWords == {<< >>, <<"a">>, <<"B">>}
ExpectedMeanings == StringsOver({"a", "B", " "}, MaxExpectedLen)
ExpectedDevanagari == {<< >>, <<Devanagari>>}

\* expected_output with the given fields present
ExpectedOutputs ==
    {w @@ m @@ d :
        w \in {Empty} \cup {"word_konkani_english_alphabet" :> x : x \in ExpectedWords},
        m \in {Empty} \cup {"english_meaning" :> x : x \in ExpectedMeanings},
        d \in {Empty} \cup {"word_konkani_devanagari" :> x : x \in ExpectedDevanagari}}

\* the test cases generateTestCases writes
TestCases ==
    {[id |-> id, entry_number |-> 1, input |-> [search_query |-> <<"a">>],
      expected_output |-> expected] : id \in TestIds, expected \in ExpectedOutputs}

\* what queryLLM resolves to: a failure, or a success with the message of the chat
\* response, which is undefined when the response carries none
LLMResults ==
    {[success |-> FALSE, error |-> "Request failed with status code 500"]}
        \cup {[success |-> TRUE, provider |-> "openai", model |-> "gpt-4o-mini"]}
        \cup {[success |-> TRUE, provider |-> "openai", model |-> "gpt-4o-mini", response |-> text]
                : text \in StringsOver({"a", "B", Devanagari}, MaxCandLen)}

\* a property that is present and not the empty string
Truthy(obj, k) == Has(obj, k) /\ obj[k] # << >>
\* Math.ceil(n * 0.5)
CeilHalf(n) == (n + 1) \div 2

\* a || b for checks.word_match?.passed || checks.meaning_match?.passed:
\* {passed: value}, or {} when the value is undefined
PassedOf(checks) ==
    IF Has(checks, "word_match") /\ checks.word_match.passed THEN "passed" :> TRUE
    ELSE IF Has(checks, "meaning_match") THEN "passed" :> checks.meaning_match.passed
    ELSE Empty

\* the three checks of validateResponse
wordCheck(expected, response) ==
    IF Truthy(expected, "word_konkani_english_alphabet")
    THEN LET wordInResponse ==
                includes(response, toLowerCase(expected.word_konkani_english_alphabet))
         IN "word_match" :> [passed |-> wordInResponse,
                             expected |-> expected.word_konkani_english_alphabet,
                             found |-> wordInResponse]
    ELSE Empty
meaningCheck(expected, response) ==
    IF Truthy(expected, "english_meaning")
    THEN LET meaningWords == splitSpaces(toLowerCase(expected.english_meaning))
             meaningMatchCount == Len(filterIncluded(meaningWords, response))
         IN "meaning_match" :> [passed |-> meaningMatchCount >= CeilHalf(Len(meaningWords)),
                                expected |-> expected.english_meaning,
                                match_ratio |-> <<meaningMatchCount, Len(meaningWords)>>]
    ELSE Empty
devanagariCheck(expected, rawResponse) ==
    IF Truthy(expected, "word_konkani_devanagari")
    THEN LET devanagariInResponse == includes(rawResponse, expected.word_konkani_devanagari)
         IN "devanagari_match" :> [passed |-> devanagariInResponse,
                                   expected |-> expected.word_konkani_devanagari,
                                   found |-> devanagariInResponse]
    ELSE Empty

\* the validation object before any check
NewValidation(case) ==
    [test_id |-> case.id, entry_number |-> case.entry_number,
     input_query |-> case.input.search_query, checks |-> Empty]

\* a validateResponse whose verdict takes any passed check, the native-script one too
validateResponseAnyCheck(case, llm) ==
    IF ~llm.success
    THEN Ret(NewValidation(case) @@ ("passed" :> FALSE) @@ Opt("error", llm, "error"))
    ELSE IF ~Has(llm, "response") THEN Throw(TypeErrorText)
    ELSE LET response == toLowerCase(llm.response)
             expected == case.expected_output
             checks == wordCheck(expected, response) @@ meaningCheck(expected, response)
                        @@ devanagariCheck(expected, llm.response)
         IN Ret([test_id |-> case.id, entry_number |-> case.entry_number,
                 input_query |-> case.input.search_query, checks |-> checks,
                 llm_response |-> llm.response]
                @@ (IF Has(checks, "devanagari_match") /\ checks.devanagari_match.passed
                    THEN "passed" :> TRUE ELSE PassedOf(checks))
                @@ Opt("provider", llm, "provider") @@ Opt("model", llm, "model"))

\* a validateResponse that asks for the word and the meaning both
validateResponseBoth(case, llm) ==
    IF ~llm.success
    THEN Ret(NewValidation(case) @@ ("passed" :> FALSE) @@ Opt("error", llm, "error"))
    ELSE IF ~Has(llm, "response") THEN Throw(TypeErrorText)
    ELSE LET response == toLowerCase(llm.response)
             expected == case.expected_output
             checks == wordCheck(expected, response) @@ meaningCheck(expected, response)
                        @@ devanagariCheck(expected, llm.response)
         IN Ret([test_id |-> case.id, entry_number |-> case.entry_number,
                 input_query |-> case.input.search_query, checks |-> checks,
                 llm_response |-> llm.response]
                @@ (IF Has(checks, "word_match") /\ Has(checks, "meaning_match")
                    THEN "passed" :> (checks.word_match.passed /\ checks.meaning_match.passed)
                    ELSE PassedOf(checks))
                @@ Opt("provider", llm, "provider") @@ Opt("model", llm, "model"))

\* validateResponse(testCase, llmResponse): its completion
validateResponse(case, llm) ==
    IF ~llm.success
    THEN Ret(NewValidation(case) @@ ("passed" :> FALSE) @@ Opt("error", llm, "error"))
    ELSE IF ~Has(llm, "response") THEN Throw(TypeErrorText)
    ELSE LET response == toLowerCase(llm.response)
             expected == case.expected_output
             checks == wordCheck(expected, response) @@ meaningCheck(expected, response)
                        @@ devanagariCheck(expected, llm.response)
         IN Ret([test_id |-> case.id, entry_number |-> case.entry_number,
                 input_query |-> case.input.search_query, checks |-> checks,
                 llm_response |-> llm.response]
                @@ PassedOf(checks)
                @@ Opt("provider", llm, "provider") @@ Opt("model", llm, "model"))

Validate ==
    /\ validation = << >>
    /\ validation' = <<validateResponse(testCase, llmResult)>>
    /\ UNCHANGED <<testCase, llmResult, serverVars, verifierVars, batchVars>>

ValidateInit ==
    /\ testCase \in TestCases
    /\ llmResult \in LLMResults
    /\ validation = << >>
    /\ ServerIdle
    /\ VerifierIdle
    /\ BatchIdle

ValidateNext == Validate

ValidateSpec == ValidateInit /\ [][ValidateNext]_vars

----------------------------------------------------------------------------
(* The batch runners: runValidation (scripts/validate-llm-responses.js),        *)
(* runVerificationTests and verifyAgainstProduction (utils/llm-verification.js) *)

MaxCases == 2   \* most test cases of a batch run

Runners == {"runValidation", "runVerificationTests", "verifyAgainstProduction"}
SeqsUpTo(S, n) == UNION {[1..k -> S] : k \in 0..n}

\* the test cases of llm-test-cases.json a run is given
FileTestCases ==
    {[id |-> "test-1", entry_number |-> 1, input |-> [search_query |-> <<"a">>],
      expected_output |-> [word_konkani_english_alphabet |-> <<"a">>,
                           english_meaning |-> <<"a">>]],
     [id |-> "test-2", entry_number |-> 2, input |-> [search_query |-> <<"B">>],
      expected_output |-> [word_konkani_english_alphabet |-> <<"B">>]]}
\* the rows fetchTestCases selects: word and meaning are NOT NULL
DatabaseEntries ==
    {[word_konkani_english_alphabet |-> <<"a">>, english_meaning |-> <<"a", "a", "a">>],
     [word_konkani_english_alphabet |-> <<"B">>, english_meaning |-> <<"a", "B", "a">>]}
\* the entries fetchProductionEntries returns: a field may be missing
ProductionEntries ==
    DatabaseEntries \cup {[word_konkani_english_alphabet |-> <<"a">>]}
CasesOf(name) ==
    CASE name = "runValidation" -> FileTestCases
      [] name = "runVerificationTests" -> DatabaseEntries
      [] name = "verifyAgainstProduction" -> ProductionEntries

\* what queryLLM resolves to in a batch run
BatchAnswers ==
    {[success |-> FALSE, error |-> "Request failed with status code 500"],
     [success |-> TRUE, provider |-> "openai", model |-> "gpt-4o-mini"],
     [success |-> TRUE, provider |-> "openai", model |-> "gpt-4o-mini",
      response |-> <<"a", "a", "a">>]}

\* verifyResponse(entry, llmResult.response): .toLowerCase() of undefined throws
verifyResponseCall(entry, llm) ==
    IF ~Has(entry, "english_meaning") \/ ~Has(llm, "response") THEN Throw(TypeErrorText)
    ELSE Ret(verifyResponse(entry, llm.response))

\* casesToTest = maxTests ? testCases.slice(0, maxTests) : testCases
casesToTest ==
    IF runner = "runValidation" /\ maxTests # << >> /\ maxTests[1] # 0
    THEN SubSeq(testCases, 1,
                IF maxTests[1] < Len(testCases) THEN maxTests[1] ELSE Len(testCases))
    ELSE testCases

Line(i, kind) == [test |-> i, kind |-> kind]
LogIf(cond, lines) == IF cond THEN lines ELSE << >>

\* one pass of the loop of runValidation
ValidationCase(llm) ==
    LET case == casesToTest[index]
        done == validateResponse(case, llm)
    IN /\ runner = "runValidation"
       /\ results' = Append(results,
            IF done.thrown
            THEN [test_id |-> case.id, entry_number |-> case.entry_number,
                  passed |-> FALSE, error |-> done.error]
            ELSE done.value)
       /\ log' = log \o <<Line(index, "testing"),
                          Line(index,
                               IF done.thrown THEN "error"
                               ELSE IF Has(done.value, "passed") /\ done.value.passed
                                    THEN "passed" ELSE "failed")>>
       /\ answers' = Append(answers, <<llm>>)
       \* the wait is the last statement of the try block
       /\ timeline' = timeline \o <<"query", "answer">>
                            \o (IF done.thrown THEN << >> ELSE <<"delay">>)
       /\ index' = index + 1
       /\ UNCHANGED <<successCount, returned>>

\* one pass of the loop of runVerificationTests
VerificationCase(llm) ==
    LET case == casesToTest[index]
        done == verifyResponseCall(case, llm)
    IN /\ runner = "runVerificationTests"
       /\ answers' = Append(answers, <<llm>>)
       /\ timeline' = timeline \o <<"query", "answer">>
       /\ IF ~llm.success
          THEN /\ log' = log \o LogIf(verbose, <<Line(index, "test"), Line(index, "llm-error")>>)
               /\ results' = Append(results,
                    [test_number |-> index, word |-> case.word_konkani_english_alphabet,
                     success |-> FALSE, error |-> llm.error])
               /\ index' = index + 1
               /\ UNCHANGED <<successCount, returned>>
          ELSE IF done.thrown
          THEN \* the catch around the whole loop
               /\ log' = log \o LogIf(verbose, <<Line(index, "test"), Line(index, "response")>>)
                            \o <<Line(index, "run-failed")>>
               /\ returned' = <<Ret([success |-> FALSE, error |-> done.error])>>
               /\ UNCHANGED <<results, index, successCount>>
          ELSE /\ log' = log \o LogIf(verbose, <<Line(index, "test"), Line(index, "response"),
                                                  Line(index, "match")>>)
               /\ successCount' = successCount + (IF done.value.is_accurate THEN 1 ELSE 0)
               /\ results' = Append(results,
                    ("test_number" :> index) @@ done.value
                        @@ Opt("provider", llm, "provider") @@ Opt("model", llm, "model"))
               /\ index' = index + 1
               /\ UNCHANGED returned

\* one pass of the loop of verifyAgainstProduction, for an entry with word and meaning
ProductionCase(llm) ==
    LET case == casesToTest[index]
        done == verifyResponseCall(case, llm)
    IN /\ runner = "verifyAgainstProduction"
       /\ Truthy(case, "word_konkani_english_alphabet")
       /\ Truthy(case, "english_meaning")
       /\ answers' = Append(answers, <<llm>>)
       /\ timeline' = timeline \o <<"query", "answer">>
       /\ IF ~llm.success
          THEN /\ log' = log \o LogIf(verbose, <<Line(index, "test"), Line(index, "llm-error")>>)
               /\ index' = index + 1
               /\ UNCHANGED <<results, successCount, returned>>
          ELSE IF done.thrown
          THEN /\ log' = log \o LogIf(verbose, <<Line(index, "test"), Line(index, "response")>>)
                            \o <<Line(index, "run-failed")>>
               /\ returned' = <<Ret([success |-> FALSE, error |-> done.error])>>
               /\ UNCHANGED <<results, index, successCount>>
          ELSE /\ log' = log \o LogIf(verbose, <<Line(index, "test"), Line(index, "response"),
                                                  Line(index, "match")>>)
               /\ successCount' = successCount + (IF done.value.is_accurate THEN 1 ELSE 0)
               /\ results' = Append(results,
                    ("test_number" :> index) @@ done.value)
               /\ index' = index + 1
               /\ UNCHANGED returned

\* verifyAgainstProduction: if (!word || !entry.english_meaning) continue
ProductionSkip ==
    LET case == casesToTest[index]
    IN /\ runner = "verifyAgainstProduction"
       /\ ~(Truthy(case, "word_konkani_english_alphabet") /\ Truthy(case, "english_meaning"))
       /\ answers' = Append(answers, << >>)
       /\ index' = index + 1
       /\ UNCHANGED <<results, log, successCount, returned, timeline>>

\* the body of the for loop, for the next test case
RunCase(llm) ==
    /\ runner \in Runners
    /\ returned = << >>
    /\ Len(testCases) > 0 \/ runner = "runValidation"
    /\ index <= Len(casesToTest)
    /\ \/ ValidationCase(llm)
       \/ VerificationCase(llm)
       \/ ProductionCase(llm)
       \/ ProductionSkip
    /\ UNCHANGED <<runner, verbose, testCases, maxTests, report,
                   serverVars, verifierVars, validateVars>>

\* the summary the two verification runners return
Summary(total) ==
    [success |-> TRUE, total_tests |-> total, accurate_responses |-> successCount,
     accuracy_percentage |-> IF total > 0 THEN RoundPercent(successCount, total) ELSE 0,
     results |-> results]

\* the loop is over, or there was nothing to run: the runner returns
RunReturn ==
    /\ runner \in Runners
    /\ returned = << >>
    /\ CASE runner = "runValidation" ->
                /\ index > Len(casesToTest)
                /\ returned' = <<Ret(results)>>
         [] runner = "runVerificationTests" ->
                IF Len(testCases) = 0
                THEN returned' = <<Ret([success |-> FALSE, error |-> "No test cases available"])>>
                ELSE /\ index > Len(testCases)
                     /\ returned' = <<Ret(Summary(Len(testCases)))>>
         [] runner = "verifyAgainstProduction" ->
                IF Len(testCases) = 0
                THEN returned' =
                        <<Ret([success |-> FALSE, error |-> "No production entries available"])>>
                ELSE /\ index > Len(testCases)
                     /\ returned' = <<Ret(Summary(Len(results)))>>
    /\ UNCHANGED <<runner, verbose, testCases, index, results, log, answers, maxTests,
                   successCount, timeline, report, serverVars, verifierVars, validateVars>>

\* the decimal digits of a natural number
DigitChar(d) == <<"0", "1", "2", "3", "4", "5", "6", "7", "8", "9">>[d + 1]
RECURSIVE Digits(_)
Digits(n) == IF n < 10 THEN <<DigitChar(n)>> ELSE Append(Digits(n \div 10), DigitChar(n % 10))

\* ((num / den) * 100).toFixed(2) for 0 <= num <= den: 0 / 0 is NaN
toFixed2(num, den) ==
    IF den = 0 THEN <<"N", "a", "N">>
    ELSE LET hundredths == (20000 * num + den) \div (2 * den)
         IN Digits(hundredths \div 100)
                \o <<".", DigitChar((hundredths % 100) \div 10), DigitChar(hundredths % 10)>>

\* generateReport(results), without the time stamp generated_at
generateReport(rs) ==
    LET totalTests == Len(rs)
        passed == Cardinality({i \in 1..Len(rs) : Has(rs[i], "passed") /\ rs[i].passed})
        failed == totalTests - passed
        passRate == toFixed2(passed, totalTests)
    IN [summary |-> [total_tests |-> totalTests, passed |-> passed, failed |-> failed,
                     pass_rate |-> passRate \o <<"%">>],
        results |-> rs]

\* main: const report = generateReport(results), once runValidation has returned
Report ==
    /\ runner = "runValidation"
    /\ returned # << >>
    /\ report = << >>
    /\ report' = <<generateReport(returned[1].value)>>
    /\ UNCHANGED <<runner, verbose, testCases, index, results, log, answers, maxTests,
                   successCount, returned, timeline, serverVars, verifierVars, validateVars>>

BatchInit ==
    /\ runner \in Runners
    /\ verbose \in (IF runner = "runValidation" THEN {TRUE} ELSE BOOLEAN)
    /\ testCases \in SeqsUpTo(CasesOf(runner), MaxCases)
    /\ maxTests \in (IF runner = "runValidation"
                      THEN {<< >>} \cup {<<n>> : n \in 0..MaxCases}
                      ELSE {<< >>})
    /\ index = 1
    /\ results = << >>
    /\ log = << >>
    /\ answers = << >>
    /\ successCount = 0
    /\ returned = << >>
    /\ timeline = << >>
    /\ report = << >>
    /\ ServerIdle
    /\ VerifierIdle
    /\ ValidateIdle

BatchNext ==
    \/ \E llm \in BatchAnswers : RunCase(llm)
    \/ RunReturn
    \/ Report

BatchSpec == BatchInit /\ [][BatchNext]_vars

----------------------------------------------------------------------------
(* Properties *)

\* the handler has called provider.generateResponse
Generating == route \in {"chat", "dictionary"} /\ provider # << >>
\* that call has completed
Generated == Generating /\ result # << >>
\* the messages the handler passed to generateResponse
HandlerMessages ==
    CASE route = "chat" -> ChatMessages(request)
      [] route = "dictionary" -> DictMessages(request.query, rows[1])
MessageGiven == Has(request, "message") /\ request.message # << >>
\* the selected provider has a configuration entry and no credential
Keyless(cfg) == cfg.currentProvider \in Configured /\ cfg.currentProvider \notin cfg.apiKeys

\* C1: when config.llmEnabled is false, every POST /chat request is answered with
\* status 503 and a body carrying an error and the disabled flag, and no provider
\* generateResponse call is made for it.
C1_DisabledChatIs503 ==
    (route = "chat" /\ ~config.llmEnabled) =>
        /\ provider = << >>
        /\ outbound = << >>
        /\ pc = "done" =>
            /\ Len(responses) = 1
            /\ responses[1].status = 503
            /\ Has(responses[1].body, "error")
            /\ Has(responses[1].body, "enableLLM")
            /\ responses[1].body.enableLLM = FALSE

\* C2: generateResponse never throws or rejects: for every vendor outcome it
\* resolves to a success value or to a failure value {success: false, error,
\* provider}, and the failure value carries the provider identifier.
C2_GenerateNeverThrows ==
    Generated =>
        /\ ~result[1].thrown
        /\ result[1].value.success \in BOOLEAN
        /\ Has(result[1].value, "provider")
        /\ result[1].value.provider = provider[1].name
        /\ ~result[1].value.success => Has(result[1].value, "error")

\* a 2xx answer whose body lacks the expected fields has been turned into a failure value
C2_Witness ==
    /\ Generated
    /\ Resolved(reply[1])
    /\ ~result[1].thrown
    /\ ~result[1].value.success
    /\ result[1].value.error = TypeErrorText

\* C3: every invocation of generateResponse issues exactly one outbound HTTP
\* request, on the success path and on every failure path; a failed request is
\* not retried and no result is produced without a request.
C3_OneRequestPerCall ==
    /\ Generating => Len(outbound) = 1
    /\ Generated => reply # << >>
    /\ (route \in {"chat", "dictionary"} /\ provider = << >>) => outbound = << >>

\* a call that failed on the network has completed with one request sent
C3_Witness ==
    /\ Generated
    /\ pc = "done"
    /\ reply[1].kind = "network"
    /\ ~result[1].value.success
    /\ Len(outbound) = 1

\* the contents of the system-role messages
SystemContents(messages) ==
    {messages[i].content : i \in {j \in 1..Len(messages) : messages[j].role = "system"}}
\* the text of the first user turn of a Gemini request includes `content`
InFirstUserTurn(contents, content) ==
    \E i \in 1..Len(contents) :
        /\ contents[i].role = "user"
        /\ \A j \in 1..(i - 1) : contents[j].role # "user"
        /\ includes(contents[i].parts[1].text, content)

\* C4: for Gemini, every system-role message is removed as a separate message but
\* its content still reaches the vendor request, folded into the first user turn.
C4_GeminiKeepsSystemContent ==
    (Generating /\ provider[1].name = "gemini") =>
        /\ Len(outbound[1].contents) = Len(SelectSeqBy(HandlerMessages, FALSE))
        /\ \A content \in SystemContents(HandlerMessages) :
                InFirstUserTurn(outbound[1].contents, content)

UsageCounters == {"prompt_tokens", "completion_tokens", "total_tokens"}
\* the vendor's 2xx body reports no usage counts
UsageOmitted(rep) ==
    Resolved(rep) /\ ~Has(rep.data, "usage") /\ ~Has(rep.data, "usageMetadata")

\* C5: when the vendor's successful response omits its usage-count fields, the
\* success value has a usage object whose prompt, completion and total counters are 0.
C5_UsageZeroFilled ==
    (Generated /\ ~result[1].thrown /\ result[1].value.success /\ UsageOmitted(reply[1])) =>
        /\ Has(result[1].value, "usage")
        /\ \A k \in UsageCounters :
                Has(result[1].value.usage, k) /\ result[1].value.usage[k] = 0

\* C6: every generateResponse invocation eventually returns, also when the vendor
\* never answers the outbound request.
C6_GenerateReturns == (Generating /\ pc = "http") ~> Generated

\* C7: when the selected provider's credential is missing, construction fails
\* before any outbound HTTP request is made, no instance is stored in the provider
\* cache, and the requesting POST /chat or GET /chat/health receives exactly one
\* error response.
C7_MissingKeyFailsFast ==
    /\ [](\A name \in DOMAIN providers : name \in config.apiKeys)
    /\ [](Len(responses) <= 1)
    /\ [][(/\ pc = "idle"
           /\ route' \in {"chat", "health"}
           /\ route' = "chat" => (Has(request', "message") /\ request'.message # << >>)
           /\ Keyless(config))
          => (/\ outbound' = << >>
              /\ provider' = << >>
              /\ providers' = providers
              /\ pc' = "done"
              /\ Len(responses') = 1
              /\ responses'[1].status = 500)]_vars

\* a chat request with a message, served while the selected provider has no key
C7_Witness ==
    /\ route = "chat"
    /\ pc = "done"
    /\ MessageGiven
    /\ config.currentProvider \in Implemented
    /\ Keyless(config)
    /\ responses = <<Response(500, [error |-> "Internal server error"])>>
    /\ providers # Empty

\* the enhancement attempt of the dictionary handler failed
EnhancementFailed ==
    /\ result # << >>
    /\ \/ result[1].thrown
       \/ ~result[1].value.success
       \/ ~Has(result[1].value, "message")

\* C8: whenever the database query succeeds, GET /dictionary answers 200 with
\* exactly the rows of the database; if the enhancement attempt fails the response
\* is the database-only result with llm_used = false and no llm_summary or
\* llm_suggestions.
C8_DictionaryAlwaysRows ==
    (route = "dictionary" /\ pc = "done" /\ rows # << >>) =>
        /\ Len(responses) = 1
        /\ responses[1].status = 200
        /\ responses[1].body.entries = rows[1]
        /\ responses[1].body.count = Len(rows[1])
        /\ EnhancementFailed =>
            /\ responses[1].body.llm_used = FALSE
            /\ ~Has(responses[1].body, "llm_summary")
            /\ ~Has(responses[1].body, "llm_suggestions")

\* rows were found, the provider failed, the rows were served
C8_Witness ==
    /\ route = "dictionary"
    /\ pc = "done"
    /\ rows # << >>
    /\ rows[1] # << >>
    /\ EnhancementFailed
    /\ responses = <<Response(200, DictBase(rows[1]))>>

\* C9: GET /dictionary calls a provider only when the global flag is true, use_llm
\* equals 'true' and a non-empty query is given; with the flag false no provider is
\* constructed or called and the response has llm_used = false.
C9_EnhanceOnlyWhenAsked ==
    route = "dictionary" =>
        /\ (provider # << >> \/ outbound # << >>) =>
            /\ config.llmEnabled
            /\ Has(request, "use_llm") /\ request.use_llm = "true"
            /\ Has(request, "query") /\ request.query # << >>
        /\ ~config.llmEnabled =>
            /\ provider = << >>
            /\ outbound = << >>
            /\ (pc = "done" /\ rows # << >>) => responses[1].body.llm_used = FALSE

\* enhancement was asked for with the flag off, and the rows were served without it
C9_Witness ==
    /\ route = "dictionary"
    /\ pc = "done"
    /\ ~config.llmEnabled
    /\ Has(request, "use_llm") /\ request.use_llm = "true"
    /\ Has(request, "query") /\ request.query # << >>
    /\ config.currentProvider \in config.apiKeys
    /\ rows # << >>
    /\ responses[1].body.llm_used = FALSE

\* C10: for an entry whose english_meaning is the empty string and every candidate
\* text, verifyResponse returns match_percentage = 0 and is_accurate = false.
C10_EmptyMeaningScoresZero ==
    (verdict # << >> /\ meaning = << >>) =>
        /\ verdict[1].match_percentage = 0
        /\ verdict[1].is_accurate = FALSE

\* the empty meaning was scored against a non-empty response
C10_Witness ==
    /\ verdict # << >>
    /\ meaning = << >>
    /\ candidate # << >>
    /\ verdict[1].matched_words = << >>

----------------------------------------------------------------------------
(* Properties of verifyResponse: a reference computation by positions *)

\* the lower-cased meaning and response in hand
LowerMeaning == toLowerCase(meaning)
LowerCandidate == toLowerCase(candidate)
\* totalWords and matchedWords as the loop of verifyResponse leaves them
LoopCounts == scoreParts(meaningParts(LowerMeaning), LowerCandidate)

IsSeparator(c) == c = " " \/ c = ","
\* part occurs in text
IsSubstring(part, text) ==
    LET n == Len(part) IN
    \E k \in 0..(Len(text) - n) : \A j \in 1..n : text[k + j] = part[j]
\* position s starts a word of text m, and the position the word ends at
StartsWord(m, s) == ~IsSeparator(m[s]) /\ (s = 1 \/ IsSeparator(m[s - 1]))
WordEnd(m, s) ==
    CHOOSE e \in s..Len(m) :
        /\ \A j \in s..e : ~IsSeparator(m[j])
        /\ e < Len(m) => IsSeparator(m[e + 1])
WordAt(m, s) == SubSeq(m, s, WordEnd(m, s))
\* the starts of the words longer than 2 characters
SignificantStarts(m) ==
    {s \in 1..Len(m) : StartsWord(m, s) /\ WordEnd(m, s) - s + 1 > 2}
\* the phrase around position s: from the comma before it to the comma after it,
\* without the white space at its ends
PhraseAt(m, s) ==
    LET from == CHOOSE a \in 1..s :
                    /\ a > 1 => m[a - 1] = ","
                    /\ \A j \in a..s : m[j] # ","
        to == CHOOSE b \in s..Len(m) :
                    /\ b < Len(m) => m[b + 1] = ","
                    /\ \A j \in s..b : m[j] # ","
        first == CHOOSE a \in from..s : m[a] # " " /\ \A j \in from..(a - 1) : m[j] = " "
        last == CHOOSE b \in s..to : m[b] # " " /\ \A j \in (b + 1)..to : m[j] = " "
    IN SubSeq(m, first, last)
RefTotal == Cardinality(SignificantStarts(LowerMeaning))
RefMatchedStarts ==
    LET m == LowerMeaning
        c == LowerCandidate
    IN {s \in SignificantStarts(m) :
            \/ IsSubstring(PhraseAt(m, s), c)
            \/ IsSubstring(WordAt(m, s), c)}
RefMatched == Cardinality(RefMatchedStarts)
\* pct is matched / total * 100 rounded to the nearest integer, halves upwards
IsRounded(pct, matched, total) ==
    /\ pct \in Int
    /\ 200 * matched - total < 2 * total * pct
    /\ 2 * total * pct <= 200 * matched + total
\* ceil(total * 0.4)
Ceil40(total) == (40 * total + 99) \div 100
\* the meaning has a word longer than 2 characters
HasSignificantWord == SignificantStarts(LowerMeaning) # {}
\* the response is the meaning up to letter case
SameUpToCase == LowerCandidate = LowerMeaning

\* C11 as stated: for every meaning and every candidate equal to it up to letter
\* case, verifyResponse returns match_percentage = 100.
C11_FullMatchIs100 ==
    (verdict # << >> /\ SameUpToCase) => verdict[1].match_percentage = 100

\* C11 as amended: for every meaning that has at least one word longer than 2
\* characters and every candidate equal to it up to letter case, verifyResponse
\* returns match_percentage = 100 (and is_accurate = true).
C11_FullMatchIs100WhenSignificant ==
    (verdict # << >> /\ SameUpToCase /\ HasSignificantWord) =>
        /\ verdict[1].match_percentage = 100
        /\ verdict[1].is_accurate

\* a meaning of several phrases was answered with itself in another letter case
C11_Witness ==
    /\ verdict # << >>
    /\ SameUpToCase
    /\ candidate # meaning
    /\ \E i \in 1..Len(meaning) : meaning[i] = ","
    /\ RefTotal >= 2
    /\ verdict[1].match_percentage = 100

C13_AccurateIffReported40 ==
    verdict # << >> => (verdict[1].is_accurate <=> verdict[1].match_percentage >= 40)

C15_PercentageInRange ==
    /\ verdict # << >> =>
        /\ verdict[1].match_percentage \in 0..100
        /\ LET counts == LoopCounts
           IN Len(counts.matchedWords) <= counts.totalWords
    /\ verdictWords # << >> =>
        /\ verdictWords[1].match_percentage \in 0..100

\* both versions have scored a response that matches the meaning in part
C15_Witness ==
    /\ verdict # << >>
    /\ verdictWords # << >>
    /\ verdict[1].match_percentage \in 1..99
    /\ verdictWords[1].match_percentage \in 1..100

\* no word is counted as matched more than once
NoRepeatedMatch ==
    LET counted == LoopCounts.matchedWords
    IN Cardinality({counted[i] : i \in 1..Len(counted)}) = Len(counted)

\* C16 as stated: with totalWords > 0, match_percentage =
\* round(100 * (number of entries of the reported matched_words) / totalWords).
C16_PercentageOfReportedSet ==
    verdict # << >> =>
        LET total == RefTotal
        IN total > 0 =>
            IsRounded(verdict[1].match_percentage, Len(verdict[1].matched_words), total)

\* C16 as amended: with totalWords > 0 and no word counted as matched more than
\* once, match_percentage = round(100 * (number of entries of the reported
\* matched_words) / totalWords), and matched_words never lists a word twice.
C16_PercentageOfReportedSetNoRepeat ==
    verdict # << >> =>
        /\ \A i, j \in 1..Len(verdict[1].matched_words) :
                verdict[1].matched_words[i] = verdict[1].matched_words[j] => i = j
        /\ LET total == RefTotal
           IN (total > 0 /\ NoRepeatedMatch) =>
                IsRounded(verdict[1].match_percentage, Len(verdict[1].matched_words), total)

\* one matched word out of six
C16_Witness ==
    /\ verdict # << >>
    /\ RefTotal = 6
    /\ NoRepeatedMatch
    /\ Len(verdict[1].matched_words) = 1
    /\ verdict[1].match_percentage = 17

----------------------------------------------------------------------------
(* Properties of validateResponse *)

\* validateResponse has returned an object
Validated == validation # << >> /\ ~validation[1].thrown
\* the test case with another expected native-script word, or with none
WithDevanagari(case, d) ==
    [case EXCEPT !.expected_output =
        [k \in (DOMAIN @) \ {"word_konkani_devanagari"} |-> @[k]] @@ d]
DevanagariVariants ==
    {Empty} \cup {"word_konkani_devanagari" :> x : x \in ExpectedDevanagari}
\* the field of a record, wrapped, or << >> when the record lacks it
Field(obj, k) == IF Has(obj, k) THEN <<obj[k]>> ELSE << >>

\* C17: for two test cases that differ only in the expected word_konkani_devanagari
\* (or its absence) and the same LLM response, validateResponse returns the same
\* passed value and the same word_match and meaning_match results.
C17_DevanagariNeverDecides ==
    validation # << >> =>
        \A d \in DevanagariVariants :
            LET other == validateResponse(WithDevanagari(testCase, d), llmResult)
            IN /\ other.thrown = validation[1].thrown
               /\ ~other.thrown =>
                    /\ Field(other.value, "passed") = Field(validation[1].value, "passed")
                    /\ Field(other.value.checks, "word_match")
                            = Field(validation[1].value.checks, "word_match")
                    /\ Field(other.value.checks, "meaning_match")
                            = Field(validation[1].value.checks, "meaning_match")

\* the native-script word was found in a response that failed the test
C17_Witness ==
    /\ Validated
    /\ Has(validation[1].value.checks, "devanagari_match")
    /\ validation[1].value.checks.devanagari_match.passed
    /\ Has(validation[1].value.checks, "meaning_match")
    /\ Has(validation[1].value, "passed")
    /\ validation[1].value.passed = FALSE

\* C18: for every test case and every LLM result (failed, or successful with its
\* response text), validateResponse returns an object that has the test case's id
\* as test_id, has a checks object, and whose passed field is a boolean, never
\* undefined.
C18_ValidationShape ==
    (validation # << >> /\ (llmResult.success => Has(llmResult, "response"))) =>
        /\ ~validation[1].thrown
        /\ validation[1].value.test_id = testCase.id
        /\ Has(validation[1].value, "checks")
        /\ Has(validation[1].value, "passed")
        /\ validation[1].value.passed \in BOOLEAN

\* the words of text m that white space separates: their starts and ends
StartsToken(m, s) == ~IsSpace(m[s]) /\ (s = 1 \/ IsSpace(m[s - 1]))
TokenEnd(m, s) ==
    CHOOSE e \in s..Len(m) :
        /\ \A j \in s..e : ~IsSpace(m[j])
        /\ e < Len(m) => IsSpace(m[e + 1])
TokenStarts(m) == {s \in 1..Len(m) : StartsToken(m, s)}
\* the empty pieces split(/\s+/) yields before leading and after trailing white space
EmptyPieces(m) ==
    IF m = << >> THEN 1
    ELSE (IF IsSpace(m[1]) THEN 1 ELSE 0) + (IF IsSpace(m[Len(m)]) THEN 1 ELSE 0)
\* the expected word occurs in the response, letter case aside
WordOccurs ==
    /\ Has(llmResult, "response")
    /\ Truthy(testCase.expected_output, "word_konkani_english_alphabet")
    /\ IsSubstring(toLowerCase(testCase.expected_output.word_konkani_english_alphabet),
                   toLowerCase(llmResult.response))
\* at least half of the pieces of the expected meaning occur in the response
MeaningOccurs ==
    /\ Has(llmResult, "response")
    /\ Truthy(testCase.expected_output, "english_meaning")
    /\ LET m == toLowerCase(testCase.expected_output.english_meaning)
           r == toLowerCase(llmResult.response)
           found == {s \in TokenStarts(m) : IsSubstring(SubSeq(m, s, TokenEnd(m, s)), r)}
       IN 2 * (Cardinality(found) + EmptyPieces(m))
                >= Cardinality(TokenStarts(m)) + EmptyPieces(m)

\* C19: validateResponse marks a test as passed exactly when the LLM call
\* succeeded and the expected word occurs case-insensitively in the response or
\* the meaning check passes; when the LLM call failed the result has passed =
\* false, carries the upstream error and contains no checks.
C19_PassedIffWordOrMeaning ==
    validation # << >> =>
        /\ (Validated /\ Has(validation[1].value, "passed") /\ validation[1].value.passed)
                <=> (llmResult.success /\ (WordOccurs \/ MeaningOccurs))
        /\ ~llmResult.success =>
            /\ Validated
            /\ validation[1].value.passed = FALSE
            /\ Has(validation[1].value, "error")
            /\ validation[1].value.error = llmResult.error
            /\ validation[1].value.checks = Empty

\* a test passed on its meaning although the expected word is not in the response
C19_Witness ==
    /\ Validated
    /\ Has(validation[1].value, "passed")
    /\ validation[1].value.passed
    /\ Has(validation[1].value.checks, "word_match")
    /\ ~validation[1].value.checks.word_match.passed
    /\ validation[1].value.checks.meaning_match.passed
    /\ validation[1].value.checks.meaning_match.match_ratio = <<1, 2>>

----------------------------------------------------------------------------
(* Properties of the batch runners *)

\* the LLM call of test case i failed, or scoring its response raised an exception
CaseFailed(i) ==
    /\ answers[i] # << >>
    /\ \/ ~answers[i][1].success
       \/ ~Has(answers[i][1], "response")
\* the failure of test case i is in `results`
CaseRecorded(i) ==
    \E k \in 1..Len(results) :
        \/ /\ runner = "runValidation"
           /\ results[k].test_id = casesToTest[i].id
           /\ Has(results[k], "error")
        \/ /\ runner # "runValidation"
           /\ results[k].test_number = i
           /\ Has(results[k], "error")
\* the failure of test case i was written to the console
CaseLogged(i) ==
    \E k \in 1..Len(log) :
        log[k].test = i /\ log[k].kind \in {"error", "llm-error", "run-failed"}

\* C20: in every batch runner a failure while processing test case i (a failed
\* LLM call, or an exception raised while scoring its response) is recorded or
\* logged, and the test cases after it are still processed: when the runner
\* returns, every test case has been taken up.
C20_FailingCaseNeverAborts ==
    runner \in Runners =>
        /\ \A i \in 1..Len(answers) : CaseFailed(i) => (CaseRecorded(i) \/ CaseLogged(i))
        /\ returned # << >> =>
            /\ ~returned[1].thrown
            /\ Len(answers) = Len(casesToTest)

----------------------------------------------------------------------------
(* Properties of the chat route and of the provider switch *)

\* the chat handler has sent its response
ChatDone == route = "chat" /\ pc = "done"
\* the value the adapter returned to the chat handler
AdapterValue == result[1].value
\* the field of the response body, or "undefined" when the body lacks it
BodyField(k) == IF Has(responses[1].body, k) THEN <<responses[1].body[k]>> ELSE << >>
\* the field of the adapter's value, or "undefined" when the value lacks it
AdapterField(k) == IF Has(AdapterValue, k) THEN <<AdapterValue[k]>> ELSE << >>

\* C23: with the LLM flag enabled a POST /chat request never gets more than one
\* response and has exactly one when its handler is through: 400 and no provider
\* call when the message is missing; 200 with the adapter's message, provider,
\* model and usage when the adapter returned a success value; 500 with error,
\* details equal to the adapter's error, and the adapter's provider identifier when
\* the adapter returned a failure value.
C23_ChatResponses ==
    (route = "chat" /\ config.llmEnabled) =>
        /\ Len(responses) <= 1
        /\ pc = "done" => Len(responses) = 1
        /\ (pc = "done" /\ ~MessageGiven) =>
            /\ responses[1].status = 400
            /\ Has(responses[1].body, "error")
            /\ provider = << >>
            /\ outbound = << >>
            /\ result = << >>
        /\ (pc = "done" /\ result # << >> /\ ~result[1].thrown) =>
            IF AdapterValue.success
            THEN /\ responses[1].status = 200
                 /\ DOMAIN responses[1].body \subseteq {"message", "provider", "model", "usage"}
                 /\ \A k \in {"message", "provider", "model", "usage"} :
                        BodyField(k) = AdapterField(k)
            ELSE /\ responses[1].status = 500
                 /\ DOMAIN responses[1].body \subseteq {"error", "details", "provider"}
                 /\ responses[1].body.error = "Failed to generate response"
                 /\ BodyField("details") = AdapterField("error")
                 /\ BodyField("provider") = <<provider[1].name>>

\* an enabled chat request answered 500 with the vendor's error text as details
C23_Witness ==
    /\ ChatDone
    /\ config.llmEnabled
    /\ result # << >>
    /\ ~result[1].thrown
    /\ ~AdapterValue.success
    /\ responses[1].status = 500
    /\ BodyField("details") = <<"Network Error">>

\* C25: the model, temperature and maximum-token values of the outbound request of
\* a chat call are the caller's values whenever the request's options supply them
\* (a supplied temperature of 0 included), and the defaults (the provider's default
\* model, 0.7, 1000) only when the key is absent.
C25_CallerValuesWin ==
    (route = "chat" /\ outbound # << >>) =>
        LET options == BodyOptions(request)
            sent == outbound[1]
        IN  /\ sent.model = IF Has(options, "model") THEN options.model
                            ELSE provider[1].defaultModel
            /\ sent.temperature = IF Has(options, "temperature") THEN options.temperature
                                  ELSE DefaultTemperature
            /\ sent.max_tokens = IF Has(options, "maxTokens") THEN options.maxTokens
                                 ELSE DefaultMaxTokens

\* C27: a chat request is served by one provider for its whole duration: the
\* provider it calls is the one config.currentProvider named when the request
\* started, the request it sent and the provider it holds do not change while it
\* waits, whatever is switched meanwhile, and the provider identifier of its
\* response is that provider's.
C27_OneProviderPerRequest ==
    /\ [][(pc = "idle" /\ route' = "chat" /\ provider' # << >>)
            => (/\ provider'[1].name = config.currentProvider
                /\ Len(outbound') = 1
                /\ outbound'[1].vendor = config.currentProvider)]_vars
    /\ [][(route = "chat" /\ pc = "http")
            => (provider' = provider /\ outbound' = outbound /\ route' = route)]_vars
    /\ []((ChatDone /\ result # << >> /\ ~result[1].thrown)
            => (/\ outbound[1].vendor = provider[1].name
                /\ BodyField("provider") = <<provider[1].name>>))

\* a chat request answered in the name of the provider it started with, after the
\* current provider was switched to another one
C27_Witness ==
    /\ ChatDone
    /\ result # << >>
    /\ config.currentProvider # provider[1].name
    /\ responses[1].status = 200
    /\ BodyField("provider") = <<provider[1].name>>

\* C28: a provider name POST /chat/provider accepts (answers 200 and stores) is one
\* of the supported implementations, so that initializeProvider can construct the
\* current provider; a request it rejects has status 400.
C28_AcceptedIsSupported ==
    (route = "provider" /\ pc = "done") =>
        IF responses[1].status = 200
        THEN /\ config.currentProvider = request.provider
             /\ config.currentProvider \in Implemented
        ELSE responses[1].status = 400

----------------------------------------------------------------------------
(* Further properties of verifyResponse *)

\* the responses that extend the candidate by one character at either end
Extensions == {<<c>> \o candidate : c \in Chars} \cup {Append(candidate, c) : c \in Chars}

RefWordMatchedStarts ==
    LET m == LowerMeaning
        c == LowerCandidate
    IN {s \in SignificantStarts(m) : IsSubstring(WordAt(m, s), c)}

\* C30: the phrase-level short-circuit never changes the score: match_percentage
\* and is_accurate are those of a scorer that looks up every word longer than 2
\* characters on its own.
C30_ShortCircuitIsNeutral ==
    verdict # << >> =>
        LET total == RefTotal
            matched == Cardinality(RefWordMatchedStarts)
        IN /\ IF total > 0
              THEN IsRounded(verdict[1].match_percentage, matched, total)
              ELSE verdict[1].match_percentage = 0
           /\ verdict[1].is_accurate <=> (total > 0 /\ 100 * matched >= 40 * total)

\* a phrase of two counted words was found whole in the response
C30_Witness ==
    /\ verdict # << >>
    /\ RefTotal = 2
    /\ verdict[1].match_percentage = 100
    /\ verdict[1].is_accurate
    /\ \E s \in SignificantStarts(LowerMeaning) :
            /\ Len(PhraseAt(LowerMeaning, s)) > Len(WordAt(LowerMeaning, s))
            /\ IsSubstring(PhraseAt(LowerMeaning, s), LowerCandidate)

----------------------------------------------------------------------------
(* The two meaning checks on one meaning and one response *)

\* the test case generate-test-cases.js writes for the database entry
CaseOfEntry(entry) ==
    [id |-> "test-1", entry_number |-> 1,
     input |-> [search_query |-> entry.word_konkani_english_alphabet],
     expected_output |-> entry]

\* the verifier and the validation script are given the same meaning and response
PolicyInit ==
    /\ meaning \in Strings(MaxMeaningLen) \cup WordTexts(MaxWords)
    /\ candidate \in Strings(MaxCandLen) \cup WordTexts(MaxCandWords)
    /\ verdict = << >>
    /\ verdictWords = << >>
    /\ testCase = CaseOfEntry(Entry(meaning))
    /\ llmResult = [success |-> TRUE, provider |-> "openai", model |-> "gpt-4o-mini",
                    response |-> candidate]
    /\ validation = << >>
    /\ ServerIdle
    /\ BatchIdle

PolicyNext == Verify \/ VerifyWords \/ Validate

PolicySpec == PolicyInit /\ [][PolicyNext]_vars

\* C24: for the same expected meaning and the same LLM response, is_accurate of
\* verifyResponse and checks.meaning_match.passed of validateResponse agree.
C24_OneMeaningPolicy ==
    (/\ verdict # << >>
     /\ Validated
     /\ Has(validation[1].value.checks, "meaning_match"))
        => (verdict[1].is_accurate <=> validation[1].value.checks.meaning_match.passed)

----------------------------------------------------------------------------
(* Further properties of the batch runners *)

\* C21: in every batch runner the LLM calls are issued one at a time, and between
\* any two LLM calls the earlier call has been answered and the inter-call delay
\* of about one second has elapsed, whether the earlier case passed, failed or
\* raised an error.
C21_DelayBetweenCalls ==
    runner \in Runners =>
        \A i, j \in 1..Len(timeline) :
            (i < j /\ timeline[i] = "query" /\ timeline[j] = "query") =>
                /\ \E k \in (i + 1)..(j - 1) : timeline[k] = "answer"
                /\ \E k \in (i + 1)..(j - 1) : timeline[k] = "delay"

\* the results whose passed is true
PassedResults(rs) == {i \in 1..Len(rs) : Has(rs[i], "passed") /\ rs[i].passed = TRUE}
DigitSet == {"0", "1", "2", "3", "4", "5", "6", "7", "8", "9"}
\* the text is digits, a point, two digits and the percent sign
IsPercentText(text) ==
    /\ Len(text) >= 5
    /\ text[Len(text)] = "%"
    /\ text[Len(text) - 3] = "."
    /\ \A i \in (1..(Len(text) - 1)) \ {Len(text) - 3} : text[i] \in DigitSet
\* the number a text without its point and percent sign denotes, in hundredths
DigitValue(c) == CHOOSE d \in 0..9 : DigitChar(d) = c
RECURSIVE HundredthsOf(_)
HundredthsOf(text) ==
    IF text = << >> THEN 0
    ELSE IF text[Len(text)] \in {".", "%"} THEN HundredthsOf(SubSeq(text, 1, Len(text) - 1))
    ELSE 10 * HundredthsOf(SubSeq(text, 1, Len(text) - 1)) + DigitValue(text[Len(text)])

\* C22: for every list of validation results the report has total_tests = number
\* of results, passed = number of results whose passed is true, failed =
\* total_tests - passed, and pass_rate is the percentage passed / total_tests with
\* two decimals followed by '%': a well-formed percentage for every list, the
\* empty one included.
C22_ReportWellFormed ==
    report # << >> =>
        LET rs == returned[1].value
            summary == report[1].summary
        IN /\ summary.total_tests = Len(rs)
           /\ summary.passed = Cardinality(PassedResults(rs))
           /\ summary.failed = summary.total_tests - summary.passed
           /\ IsPercentText(summary.pass_rate)
           /\ summary.total_tests > 0 =>
                LET h == HundredthsOf(summary.pass_rate)
                IN /\ 2 * summary.total_tests * h <= 20000 * summary.passed + summary.total_tests
                   /\ 2 * summary.total_tests * h > 20000 * summary.passed - summary.total_tests

\* the smaller of two numbers
Min(a, b) == IF a < b THEN a ELSE b

\* C26: runValidation with a supplied integer maxTests >= 0 issues LLM calls for
\* exactly the first min(maxTests, N) test cases, in input order, never for more
\* than maxTests cases, and returns exactly one result per processed case in that
\* order.
C26_FirstMaxTestsCases ==
    (runner = "runValidation" /\ maxTests # << >>) =>
        LET n == Min(maxTests[1], Len(testCases))
        IN /\ Len(answers) <= n
           /\ Len(results) = Len(answers)
           /\ \A i \in 1..Len(results) : results[i].test_id = testCases[i].id
           /\ returned # << >> =>
                /\ Len(answers) = n
                /\ returned[1] = Ret(results)

====
